---- MODULE Spec2Model ----
(***************************************************************************)
(* stegoimg: a payload is hidden in the low byte of the colour samples of  *)
(* a carrier image.  StegoImgWriter (write_img.go) buffers the payload and *)
(* stamps header+payload into a new image on Close; StegoImgReader         *)
(* (the reader source file) rebuilds the payload from an image.            *)
(*                                                                         *)
(* A carrier is modelled as the code sees it: through Bounds().Max and     *)
(* At(x, y).RGBA(), i.e. a function from <<x, y>> to the four 16-bit       *)
(* values <<r, g, b, a>>.  The container codec (image.Decode, png.Encode)  *)
(* is external: it carries a pixel grid to a byte stream and back.         *)
(***************************************************************************)
EXTENDS Integers, Sequences, FiniteSets, TLC

\* ---- bounds of the model ------------------------------------------------
MaxW == 3            \* carrier widths 1..MaxW
MaxH == 2            \* carrier heights 1..MaxH
MaxWriteLen == 2     \* free-content Write arguments have length 0..MaxWriteLen
MaxWrites == 2       \* number of Write calls in one behaviour
MaxCloses == 2       \* number of Close calls in one behaviour
MaxBuf == 2          \* Read buffers have length 0..MaxBuf

\* ---- input alphabets ----------------------------------------------------
PayloadBytes == {0, 173}
\* The low byte stored in the 4th colour sample of a raw carrier, i.e. the
\* length a reader decodes from a carrier nobody wrote a frame into.
CarrierKinds == {2, 9}

VARIABLES
    W, H,          \* orig_img.Bounds().Max.X / .Max.Y
    orig_img,      \* carrier pixels as returned by At(x, y).RGBA()
    wstate,        \* "none" | "failed" | "made": outcome of NewStegoImgWriter
    is_open,       \* StegoImgWriter.is_open
    data,          \* StegoImgWriter.data (the slice's elements)
    data_cap,      \* cap(StegoImgWriter.data)
    new_img,       \* StegoImgWriter.new_img (NRGBA64 pixels <<r, g, b, a>>)
    format,        \* StegoImgWriter.format
    output,        \* the sink: the grids the container encoder wrote to it
    encoded,       \* history: the grids handed to the container encoder
    accepted,      \* history: the sum of the counts n Write has returned
    space0,        \* history: SpaceLeft() right after construction
    rstate,        \* "none" | "failed" | "made": outcome of NewStegoImgReader
    rsrc,          \* which image the reader was built from
    rdata,         \* StegoImgReader.data
    rpos,          \* StegoImgReader.pos
    rout,          \* history: all bytes Read has returned so far
    last,          \* the last call: its arguments and what it returned
    nwrites, ncloses   \* call counters (bounded)

vars == <<W, H, orig_img, wstate, is_open, data, data_cap, new_img, format,
          output, encoded, accepted, space0, rstate, rsrc, rdata, rpos, rout, last, nwrites, ncloses>>

wvars == <<wstate, is_open, data, data_cap, new_img, format, output, encoded,
           accepted, space0, nwrites, ncloses>>
rvars == <<rstate, rsrc, rdata, rpos, rout>>

\* ---- helpers ------------------------------------------------------------
Min(a, b) == IF a < b THEN a ELSE b

Pixels(w, h) == (0 .. w - 1) \X (0 .. h - 1)

\* A raw carrier: every sample has a non-zero high byte; the low bytes of the
\* first four samples in row-major order read 0, 0, 0, kind.
CarrierSample(kind, k) ==
    LET low == IF k < 3 THEN 0 ELSE IF k = 3 THEN kind ELSE (37 * k + 5) % 256
        high == 18 + (k % 100)
    IN  high * 256 + low

Carrier(kind, w, h) ==
    [p \in Pixels(w, h) |->
        LET k == 3 * (p[2] * w + p[1])
        IN  <<CarrierSample(kind, k), CarrierSample(kind, k + 1),
              CarrierSample(kind, k + 2),
              IF (p[1] + p[2]) % 2 = 0 THEN 65535 ELSE 32768>>]

\* The record of a call: what it was given and what it returned.
NoCall == [op |-> "none", arg |-> <<>>, arglen |-> 0, n |-> 0, err |-> "nil",
           out |-> <<>>, pre |-> <<>>, preopen |-> FALSE, prepos |-> 0,
           enc |-> "none"]

Init ==
    /\ W \in 1 .. MaxW
    /\ H \in 1 .. MaxH
    /\ \E kind \in CarrierKinds : orig_img = Carrier(kind, W, H)
    /\ wstate = "none"
    /\ is_open = FALSE
    /\ data = <<>>
    /\ data_cap = 0
    /\ new_img = <<>>
    /\ format = ""
    /\ output = <<>>
    /\ encoded = <<>>
    /\ accepted = 0
    /\ space0 = 0
    /\ rstate = "none"
    /\ rsrc = "none"
    /\ rdata = <<>>
    /\ rpos = 0
    /\ rout = <<>>
    /\ last = NoCall
    /\ nwrites = 0
    /\ ncloses = 0

\* ---- the writer (src/write_img.go) ---------------------------------------

\* append's result capacity when the slice must grow.  The language leaves
\* the new capacity open (at least the needed length); the gc runtime rounds
\* a 4-byte request up to its 8-byte size class.
GrowCaps(need) == {need, 8}

\* cap(append(s, ...add bytes)) for a slice of length len and capacity c.
AppendCaps(len, c, add) == IF len + add <= c THEN {c} ELSE GrowCaps(len + add)

\* size := (Max.X - 1) * (Max.Y - 1) * 3
DataSize(w, h) == (w - 1) * (h - 1) * 3

\* image.NewNRGBA64(bounds): every pixel zero.
NewNRGBA64(w, h) == [p \in Pixels(w, h) |-> <<0, 0, 0, 0>>]

\* SpaceLeft() of a new writer for a w x h carrier when append, if it has to
\* grow the slice, gives it capacity grow.
CapacityWith(grow, w, h) ==
    (IF 4 <= DataSize(w, h) THEN DataSize(w, h) ELSE grow) - 4

\* SpaceLeft counting only the payload bytes as used.
SpaceLeft_IgnoresHeader == data_cap - (Len(data) - 4)

SpaceLeft == data_cap - Len(data)

NewStegoImgWriter(decodeOK) ==
    /\ wstate = "none"
    /\ IF ~decodeOK
         THEN /\ wstate' = "failed"
              /\ last' = [NoCall EXCEPT !.op = "NewStegoImgWriter", !.err = "decode"]
              /\ UNCHANGED <<is_open, data, data_cap, new_img, format, space0>>
         ELSE /\ wstate' = "made"
              /\ format' = "png"
              /\ new_img' = NewNRGBA64(W, H)
              /\ data' = <<0, 0, 0, 0>>
              /\ data_cap' \in AppendCaps(0, DataSize(W, H), 4)
              /\ is_open' = TRUE
              /\ space0' = data_cap' - Len(data')
              /\ last' = [NoCall EXCEPT !.op = "NewStegoImgWriter"]
    /\ UNCHANGED <<W, H, orig_img, output, encoded, accepted, nwrites, ncloses>>
    /\ UNCHANGED rvars

\* WriteLoop with the bound test off by one (<= for <).
RECURSIVE WriteLoop_OffByOne(_, _, _, _, _)
WriteLoop_OffByOne(d, c, p, i, n) ==
    IF i >= Len(p) THEN [data |-> d, n |-> n, err |-> "nil"]
    ELSE IF Len(d) <= c THEN WriteLoop_OffByOne(Append(d, p[i + 1]), c, p, i + 1, n + 1)
    ELSE [data |-> d, n |-> n, err |-> "ImageFull"]

\* WriteLoop returning nil when a byte does not fit.
RECURSIVE WriteLoop_SilentDrop(_, _, _, _, _)
WriteLoop_SilentDrop(d, c, p, i, n) ==
    IF i >= Len(p) THEN [data |-> d, n |-> n, err |-> "nil"]
    ELSE IF Len(d) < c THEN WriteLoop_SilentDrop(Append(d, p[i + 1]), c, p, i + 1, n + 1)
    ELSE [data |-> d, n |-> n, err |-> "nil"]

\* The loop of Write from index i on: each byte is appended while
\* len(data) < cap(data); the first byte that does not fit ends the call.
RECURSIVE WriteLoop(_, _, _, _, _)
WriteLoop(d, c, p, i, n) ==
    IF i >= Len(p) THEN [data |-> d, n |-> n, err |-> "nil"]
    ELSE IF Len(d) < c THEN WriteLoop(Append(d, p[i + 1]), c, p, i + 1, n + 1)
    ELSE [data |-> d, n |-> n, err |-> "ImageFull"]

\* Write without the is_open test.
WriteResult_NoGuard(open, d, c, p) == WriteLoop(d, c, p, 0, 0)

WriteResult(open, d, c, p) ==
    IF ~open THEN [data |-> d, n |-> 0, err |-> "ImageClosed"]
    ELSE WriteLoop(d, c, p, 0, 0)

RECURSIVE SeqsUpTo(_, _)
SeqsUpTo(S, n) ==
    IF n = 0 THEN {<<>>}
    ELSE LET shorter == SeqsUpTo(S, n - 1)
         IN  shorter \cup {Append(s, b) : s \in {t \in shorter : Len(t) = n - 1}, b \in S}

FillSeq(n) == [i \in 1 .. n |-> IF i % 2 = 1 THEN 173 ELSE 0]

\* Arguments of Write: every short byte string, and the strings that reach
\* and overrun the space left.
WriteArgs ==
    SeqsUpTo(PayloadBytes, MaxWriteLen) \cup {FillSeq(SpaceLeft), FillSeq(SpaceLeft + 1)}

Write(p) ==
    /\ wstate = "made"
    /\ nwrites < MaxWrites
    /\ LET r == WriteResult(is_open, data, data_cap, p)
       IN  /\ data' = r.data
           /\ accepted' = accepted + r.n
           /\ last' = [NoCall EXCEPT !.op = "Write", !.arg = p, !.arglen = Len(p),
                                     !.n = r.n, !.err = r.err, !.pre = data,
                                     !.preopen = is_open]
    /\ nwrites' = nwrites + 1
    /\ UNCHANGED <<W, H, orig_img, wstate, is_open, data_cap, new_img, format,
                   output, encoded, space0, ncloses>>
    /\ UNCHANGED rvars

\* binary.BigEndian.PutUint32
PutUint32(v) ==
    <<(v \div 16777216) % 256, (v \div 65536) % 256, (v \div 256) % 256, v % 256>>

\* binary.BigEndian.Uint32 of the first four bytes of b
Uint32(b) == b[1] * 16777216 + b[2] * 65536 + b[3] * 256 + b[4]

\* SetSize writing the length of the whole buffer, header included.
SetSize_WholeLen(d) ==
    LET hdr == PutUint32(Len(d))
    IN  [i \in 1 .. Len(d) |-> IF i <= 4 THEN hdr[i] ELSE d[i]]

\* uint32(len(img.data) - 4) written into img.data[:4].  len(img.data) is at
\* least 4 from construction on and far below 2^32, so the conversion to
\* uint32 keeps the value.
SetSize(d) ==
    LET size == Len(d) - 4
        hdr == PutUint32(size)
    IN  [i \in 1 .. Len(d) |-> IF i <= 4 THEN hdr[i] ELSE d[i]]

\* EncodeByte storing the byte as the whole value (no mask-and-or).
EncodeByte_DropHigh(val, b) == b

\* vals[v] = vals[v] & 0xFF00; vals[v] = vals[v] | uint32(b)
EncodeByte(val, b) == ((val \div 256) % 256) * 256 + b

\* The loop over the three colour values of one pixel, from value v on.
RECURSIVE StampValues(_, _, _, _)
StampValues(vals, v, d, pos) ==
    IF v >= 3 THEN [vals |-> vals, pos |-> pos]
    ELSE IF pos < Len(d)
         THEN StampValues([vals EXCEPT ![v + 1] = EncodeByte(vals[v + 1], d[pos + 1])],
                          v + 1, d, pos + 1)
         ELSE StampValues(vals, v + 1, d, pos)

\* SetNRGBA64(x, y, color.NRGBA64{uint16(vals[0]), uint16(vals[1]), uint16(vals[2]), 0xFFFF})
NewPixel(vals) == <<vals[1] % 65536, vals[2] % 65536, vals[3] % 65536, 65535>>

\* StampLoop leaving the loops as soon as no data is left to encode.
RECURSIVE StampLoop_StopsEarly(_, _, _, _, _)
StampLoop_StopsEarly(y, x, pos, img, d) ==
    IF y >= H \/ pos >= Len(d) THEN img
    ELSE IF x >= W THEN StampLoop_StopsEarly(y + 1, 0, pos, img, d)
    ELSE LET col == orig_img[<<x, y>>]
             r == StampValues(<<col[1], col[2], col[3]>>, 0, d, pos)
         IN  StampLoop_StopsEarly(y, x + 1, r.pos,
                                  [img EXCEPT ![<<x, y>>] = NewPixel(r.vals)], d)

\* The rows-and-columns loop of Close from pixel (x, y) on.
RECURSIVE StampLoop(_, _, _, _, _)
StampLoop(y, x, pos, img, d) ==
    IF y >= H THEN img
    ELSE IF x >= W THEN StampLoop(y + 1, 0, pos, img, d)
    ELSE LET col == orig_img[<<x, y>>]
             r == StampValues(<<col[1], col[2], col[3]>>, 0, d, pos)
         IN  StampLoop(y, x + 1, r.pos, [img EXCEPT ![<<x, y>>] = NewPixel(r.vals)], d)

Formats == {"png", "jpeg", "gif", "bmp"}

\* Close without the assignment is_open = false.
Close_StaysOpen(encOK) ==
    /\ wstate = "made"
    /\ ncloses < MaxCloses
    /\ data' = SetSize(data)
    /\ new_img' = StampLoop(0, 0, 0, new_img, data')
    /\ is_open' = is_open
    /\ IF format \in Formats
         THEN /\ encoded' = Append(encoded, new_img')
              /\ output' = IF encOK THEN Append(output, new_img') ELSE output
              /\ last' = [NoCall EXCEPT !.op = "Close", !.pre = data, !.preopen = is_open,
                                        !.enc = IF encOK THEN "ok" ELSE "failed"]
         ELSE /\ UNCHANGED <<output, encoded>>
              /\ last' = [NoCall EXCEPT !.op = "Close", !.pre = data, !.preopen = is_open,
                                        !.err = "format"]
    /\ ncloses' = ncloses + 1
    /\ UNCHANGED <<W, H, orig_img, wstate, data_cap, format, accepted, space0, nwrites>>
    /\ UNCHANGED rvars

Close(encOK) ==
    /\ wstate = "made"
    /\ ncloses < MaxCloses
    /\ data' = SetSize(data)
    /\ new_img' = StampLoop(0, 0, 0, new_img, data')
    /\ is_open' = FALSE
    /\ IF format \in Formats
         THEN /\ encoded' = Append(encoded, new_img')
              /\ output' = IF encOK THEN Append(output, new_img') ELSE output
              /\ last' = [NoCall EXCEPT !.op = "Close", !.pre = data, !.preopen = is_open,
                                        !.enc = IF encOK THEN "ok" ELSE "failed"]
         ELSE /\ UNCHANGED <<output, encoded>>
              /\ last' = [NoCall EXCEPT !.op = "Close", !.pre = data, !.preopen = is_open,
                                        !.err = "format"]
    /\ ncloses' = ncloses + 1
    /\ UNCHANGED <<W, H, orig_img, wstate, data_cap, format, accepted, space0, nwrites>>
    /\ UNCHANGED rvars

\* ---- the reader -------------------------------------------------------------

\* color.NRGBA64.RGBA(): the colour values premultiplied by alpha.
NRGBA64_RGBA(px) ==
    <<(px[1] * px[4]) \div 65535, (px[2] * px[4]) \div 65535,
      (px[3] * px[4]) \div 65535, px[4]>>

\* image.Decode of what the reader is given, as seen through At(x, y).RGBA():
\* the first image in the writer's sink, or the raw carrier.
DecodedImage(src) ==
    IF src = "output"
      THEN [p \in Pixels(W, H) |-> NRGBA64_RGBA(output[1][p])]
      ELSE orig_img

DecodeFails(src) == src = "garbage" \/ (src = "output" /\ output = <<>>)

\* make([]byte, size)
MakeBytes(size) == [i \in 1 .. size |-> 0]

\* byte(vals[v] & 0x00FF)
DecodeByte(val) == val % 256

\* ReadLoop of NewStegoImgReader from value v of pixel (x, y) on; d is
\* img.data.  Leaving the loops and `break ReadLoop` both end with d.
RECURSIVE ReadLoop(_, _, _, _, _, _, _)
ReadLoop(i, y, x, v, d, pos, got_size) ==
    IF y >= H THEN d
    ELSE IF x >= W THEN ReadLoop(i, y + 1, 0, 0, d, pos, got_size)
    ELSE IF v >= 3 THEN ReadLoop(i, y, x + 1, 0, d, pos, got_size)
    ELSE IF pos < Len(d)
         THEN LET d1 == [d EXCEPT ![pos + 1] = DecodeByte(i[<<x, y>>][v + 1])]
              IN  IF pos + 1 = 4 /\ ~got_size
                    THEN ReadLoop(i, y, x, v + 1, MakeBytes(Uint32(d1)), 0, TRUE)
                    ELSE ReadLoop(i, y, x, v + 1, d1, pos + 1, got_size)
         ELSE d

\* A reader is built from the writer's sink once Close has been called, or,
\* with no writer around, from the raw carrier or from a file that is no image.
ReaderSources ==
    IF wstate = "none" THEN {"carrier", "garbage"}
    ELSE IF ncloses > 0 THEN {"output"} ELSE {}

NewStegoImgReader(src) ==
    /\ rstate = "none"
    /\ rsrc' = src
    /\ IF DecodeFails(src)
         THEN /\ rstate' = "failed"
              /\ rdata' = <<>>
              /\ last' = [NoCall EXCEPT !.op = "NewStegoImgReader", !.err = "decode"]
         ELSE /\ rstate' = "made"
              /\ rdata' = ReadLoop(DecodedImage(src), 0, 0, 0, MakeBytes(4), 0, FALSE)
              /\ last' = [NoCall EXCEPT !.op = "NewStegoImgReader"]
    /\ rpos' = 0
    /\ rout' = <<>>
    /\ UNCHANGED <<W, H, orig_img>>
    /\ UNCHANGED wvars

\* Read reporting io.EOF only on a call that finds nothing left to copy.
ReadResult_LateEOF(d, pos, buflen) ==
    LET to_read == IF buflen > Len(d) - pos THEN Len(d) - pos ELSE buflen
    IN  [out |-> [k \in 1 .. to_read |-> d[pos + k]],
         n |-> to_read,
         pos |-> pos + to_read,
         err |-> IF pos = Len(d) THEN "EOF" ELSE "nil"]

\* Read copying from the start of data instead of from pos.
ReadResult_FromStart(d, pos, buflen) ==
    LET to_read == IF buflen > Len(d) - pos THEN Len(d) - pos ELSE buflen
        newpos == pos + to_read
    IN  [out |-> [k \in 1 .. to_read |-> d[k]],
         n |-> to_read,
         pos |-> newpos,
         err |-> IF newpos = Len(d) THEN "EOF" ELSE "nil"]

\* Read into a buffer of length buflen: what it copies, where pos ends, and
\* what it returns.
ReadResult(d, pos, buflen) ==
    LET to_read == IF buflen > Len(d) - pos THEN Len(d) - pos ELSE buflen
        newpos == pos + to_read
    IN  [out |-> [k \in 1 .. to_read |-> d[pos + k]],
         n |-> to_read,
         pos |-> newpos,
         err |-> IF newpos = Len(d) THEN "EOF" ELSE "nil"]

Read(buflen) ==
    /\ rstate = "made"
    /\ LET r == ReadResult(rdata, rpos, buflen)
       IN  /\ rpos' = r.pos
           /\ rout' = rout \o r.out
           /\ last' = [NoCall EXCEPT !.op = "Read", !.arglen = buflen, !.n = r.n,
                                     !.err = r.err, !.out = r.out, !.prepos = rpos]
    /\ UNCHANGED <<rstate, rsrc, rdata>>
    /\ UNCHANGED <<W, H, orig_img>>
    /\ UNCHANGED wvars

\* Writer and reader share nothing but the sink, so the schedules explored are
\* the ones where the writer's calls come before the reader is built.
WriterTurn == rstate = "none"

Next ==
    \/ WriterTurn /\ \E ok \in BOOLEAN : NewStegoImgWriter(ok)
    \/ WriterTurn /\ \E p \in WriteArgs : Write(p)
    \/ WriterTurn /\ \E ok \in BOOLEAN : Close(ok)
    \/ \E src \in ReaderSources : NewStegoImgReader(src)
    \/ \E buflen \in 0 .. MaxBuf : Read(buflen)

Spec == Init /\ [][Next]_vars

\* ---- properties ------------------------------------------------------------

\* The payload the writer holds: everything after the 4 header bytes.
Payload == SubSeq(data, 5, Len(data))

\* Row-major, channel-minor position of colour sample number k (from 0).
SamplePixel(k) == <<(k \div 3) % W, (k \div 3) \div W>>
SampleChannel(k) == (k % 3) + 1
Samples == 3 * W * H

\* The length a reader's traversal decodes from the first four samples of img.
HeaderLength(img) ==
    Uint32([k \in 1 .. 4 |-> img[SamplePixel(k - 1)][SampleChannel(k - 1)] % 256])

\* C1 (round trip): a reader built from the image the writer produced holds
\* exactly the payload written, and reading it to end-of-stream returns
\* exactly those bytes in order.
C1_RoundTrip ==
    (rstate = "made" /\ rsrc = "output") =>
        /\ rdata = Payload
        /\ (last.op = "Read" /\ last.err = "EOF") => rout = Payload

C3_ExactFillReportsFull ==
    (/\ last.op = "Write" /\ last.preopen
     /\ last.arglen > 0 /\ last.n = last.arglen
     /\ Len(data) = data_cap) => last.err = "ImageFull"

\* C4 (closed-writer guard): a Write after Close returns (0, ImageClosed) and
\* leaves the buffer as it was.
C4_ClosedWriterGuard ==
    (last.op = "Write" /\ ncloses > 0) =>
        /\ last.n = 0
        /\ last.err = "ImageClosed"
        /\ data = last.pre
        /\ ~is_open

C4_Witness ==
    /\ last.op = "Write" /\ ncloses > 0
    /\ last.arglen > 0
    /\ Len(data) > 4 /\ Len(data) < data_cap
    /\ last.err = "ImageClosed"

\* C5 (truncation detection): no reader is returned for an image whose
\* header length exceeds the samples left after the header.
C5_TruncationDetected ==
    (rstate = "made" /\ Samples >= 4) =>
        HeaderLength(DecodedImage(rsrc)) <= Samples - 4

\* C6 (carrier too small): no writer is returned for a carrier with fewer
\* colour samples than the 4-byte header needs.
C6_CarrierTooSmall ==
    Samples - 4 < 0 => wstate # "made"

\* C7 (end-of-stream timing): a Read returns io.EOF exactly when the position
\* equals the payload length after the call.
C7_EofTiming ==
    last.op = "Read" =>
        /\ last.err \in {"nil", "EOF"}
        /\ (last.err = "EOF") <=> (rpos = Len(rdata))
        /\ (Len(rdata) = 0) => (last.n = 0 /\ last.err = "EOF")

C7_Witness ==
    /\ last.op = "Read" /\ last.err = "EOF"
    /\ last.prepos > 0 /\ last.n > 0
    /\ rpos = Len(rdata)

\* C8 (reader position): the position stays within 0..length and never goes
\* back, each Read returns the min(len(buf), length - pos) bytes at the
\* position, and the bytes returned so far are the payload up to the position
\* (so no byte twice, and the whole payload at end-of-stream).
C8_ReaderPosition ==
    /\ rpos >= 0 /\ rpos <= Len(rdata)
    /\ rout = SubSeq(rdata, 1, rpos)
    /\ last.op = "Read" =>
        /\ last.n = Min(last.arglen, Len(rdata) - last.prepos)
        /\ last.out = SubSeq(rdata, last.prepos + 1, last.prepos + last.n)
        /\ rpos = last.prepos + last.n
        /\ rpos >= last.prepos
        /\ last.err = "EOF" => rout = rdata

C8_Witness ==
    /\ last.op = "Read"
    /\ last.prepos > 0
    /\ last.n > 0 /\ last.n < last.arglen
    /\ rout = rdata /\ Len(rdata) >= 3
    /\ \E i, j \in 1 .. Len(rdata) : rdata[i] # rdata[j]

\* C9 (layout): after Close the frame is the big-endian payload length and
\* the payload, and frame byte k is the low byte of channel k mod 3 of the
\* pixel at column (k div 3) mod W, row (k div 3) div W of the output image.
C9_Layout ==
    ncloses > 0 =>
        /\ SubSeq(data, 1, 4) = PutUint32(Len(data) - 4)
        /\ \A k \in 0 .. Len(data) - 1 :
              /\ SamplePixel(k)[2] < H
              /\ new_img[SamplePixel(k)][SampleChannel(k)] % 256 = data[k + 1]

\* C10 (what Close leaves alone): samples at or beyond the frame length equal
\* the carrier's, samples inside the frame keep the carrier's bits above the
\* low 8, and every alpha is 0xFFFF.
C10_Untouched ==
    ncloses > 0 =>
        \A k \in 0 .. Samples - 1 :
            LET new == new_img[SamplePixel(k)]
                old == orig_img[SamplePixel(k)]
                c == SampleChannel(k)
            IN  /\ k >= Len(data) => new[c] = old[c]
                /\ k < Len(data) => new[c] \div 256 = old[c] \div 256
                /\ new[4] = 65535

C10_Witness ==
    /\ ncloses > 0
    /\ Len(data) > 4 /\ Len(data) < Samples
    /\ \E k \in 0 .. Len(data) - 1 :
          new_img[SamplePixel(k)][SampleChannel(k)] # orig_img[SamplePixel(k)][SampleChannel(k)]
    /\ \E k \in Len(data) .. Samples - 1 :
          new_img[SamplePixel(k)][SampleChannel(k)] % 256 # 0

\* C11 (codec failures propagated): a constructor returns the decode error
\* of its image, and Close returns the error of a failed container encoder.
C11_CodecErrorsPropagated ==
    /\ last.op = "NewStegoImgWriter" => ((last.err = "decode") <=> (wstate = "failed"))
    /\ last.op = "NewStegoImgReader" => ((last.err = "decode") <=> (rstate = "failed"))
    /\ (last.op = "Close" /\ last.enc = "failed") => last.err = "encode"

\* C12 (capacity value): SpaceLeft() of a new writer is 3*W*H - 4.
C12_CapacityValue ==
    (last.op = "NewStegoImgWriter" /\ wstate = "made") => SpaceLeft = Samples - 4

\* C13 (capacity monotone): under one and the same build (one growth rule of
\* append), no carrier that is narrower or lower has a larger capacity.
C13_CapacityMonotone ==
    wstate = "made" =>
        \A g \in GrowCaps(4) :
            space0 = CapacityWith(g, W, H) =>
                \A w \in 1 .. W, h \in 1 .. H : CapacityWith(g, w, h) <= space0

\* C14 (no partial carrier): the container encoder is handed nothing before
\* the first Close, at most one grid per Close, and only fully stamped grids
\* (every pixel set, the final output image).
C14_NoPartialCarrier ==
    /\ Len(encoded) <= ncloses
    /\ Len(output) <= Len(encoded)
    /\ \A i \in 1 .. Len(encoded) :
          /\ encoded[i] = new_img
          /\ \A p \in Pixels(W, H) : encoded[i][p][4] = 65535

C14_Witness ==
    /\ Len(encoded) = 1
    /\ nwrites > 0
    /\ Len(data) > 4
    /\ Len(data) = data_cap
    /\ Len(data) + 3 <= Samples
    /\ last.op = "Close"

\* C15 (Close closes): once Close has been called the writer is closed,
\* whatever Close returned, and it stays closed in every later state.
C15_CloseCloses ==
    ncloses > 0 => ~is_open

C15_Witness ==
    /\ ncloses >= 2
    /\ last.op = "Close" /\ ~last.preopen /\ last.enc = "failed"
    /\ ~is_open

\* C16 (header length): after Close the 4-byte length in the frame, and in
\* the image when the grid has four samples, is the sum of the counts the
\* Write calls returned, which is the number of payload bytes buffered.
C16_HeaderLength ==
    ncloses > 0 =>
        /\ Uint32(SubSeq(data, 1, 4)) = accepted
        /\ accepted = Len(data) - 4
        /\ Samples >= 4 => HeaderLength(new_img) = accepted

C16_Witness ==
    /\ ncloses > 0
    /\ nwrites >= 2
    /\ accepted >= 3
    /\ Samples >= 4
    /\ HeaderLength(new_img) = accepted

\* C17 (partial acceptance): a Write on an open writer with r bytes left
\* appends the first min(len(p), r) bytes of p after the bytes already
\* buffered, returns that count, and returns ImageFull when it is short.
C17_PartialAcceptance ==
    (last.op = "Write" /\ last.preopen) =>
        LET r == data_cap - Len(last.pre)
            k == Min(last.arglen, r)
        IN  /\ r >= 0
            /\ data = last.pre \o SubSeq(last.arg, 1, k)
            /\ last.n = k
            /\ k < last.arglen => last.err = "ImageFull"

C17_Witness ==
    /\ last.op = "Write" /\ last.preopen
    /\ Len(last.pre) > 4
    /\ last.n > 0 /\ last.n < last.arglen
    /\ last.err = "ImageFull"

\* C18 (capacity accounting): SpaceLeft() is never negative, and SpaceLeft()
\* plus the bytes accepted so far is SpaceLeft() right after construction.
C18_CapacityAccounting ==
    wstate = "made" =>
        /\ SpaceLeft >= 0
        /\ SpaceLeft + accepted = space0

C18_Witness ==
    /\ wstate = "made"
    /\ nwrites >= 2
    /\ accepted > 0
    /\ SpaceLeft > 0
    /\ SpaceLeft + accepted = space0

\* C19 (single emission): the container encoder is invoked at most once and
\* at most one carrier reaches the sink.
C19_SingleEmission ==
    /\ Len(encoded) <= 1
    /\ Len(output) <= 1

====
